---- MODULE Spec2Model ----
(***************************************************************************)
(* Model of the Biomarker Health API (src/app.py): the markdown-to-JSON    *)
(* extractor parse_result_to_json and the /analyze handler around it.      *)
(*                                                                         *)
(* Text is a TLA+ string; a character is a string of length 1.  A TLA+     *)
(* string cannot hold the backtick or a character outside ASCII, so the    *)
(* model writes one ASCII character for each such character it needs:      *)
(*     "~"  the backtick                     (BT)                          *)
(*     "^"  the en dash U+2013               (EN_DASH)                     *)
(*     "#"  a decimal digit outside ASCII    (NonAsciiDigit, U+0663)       *)
(*     "@"  a lower-case letter outside ASCII (NonAsciiLower, U+00E9)      *)
(*     "&"  its upper-case letter            (NonAsciiUpper, U+00C9)       *)
(*     "%"  a space outside ASCII            (NonAsciiSpace, U+00A0)       *)
(* No model input holds a real "~", "^", "#", "@", "&" or "%".  The        *)
(* control characters VT, FS, GS, RS and US are written as themselves.     *)
(***************************************************************************)
EXTENDS Integers, Sequences, FiniteSets, TLC

(***************************************************************************)
(* Characters and character classes of the regular expressions.            *)
(***************************************************************************)
BT == "~"
EN_DASH == "^"
NonAsciiDigit == "#"
NonAsciiLower == "@"
NonAsciiUpper == "&"
NonAsciiSpace == "%"
FENCE == BT \o BT \o BT
NL == "\n"
\* \x0b, \x1c, \x1d, \x1e, \x1f
VT == ""
FS == ""
GS == ""
RS == ""
US == ""

CharAt(s, i) == SubSeq(s, i, i)
CharsOf(s) == {CharAt(s, i) : i \in 1..Len(s)}

LowerLetters == "abcdefghijklmnopqrstuvwxyz"
UpperLetters == "ABCDEFGHIJKLMNOPQRSTUVWXYZ"
\* A-Za-z
Letter == CharsOf(LowerLetters) \cup CharsOf(UpperLetters)
\* 0-9
AsciiDigit == CharsOf("0123456789")
\* \d of a str pattern: every Unicode decimal digit
Digit == AsciiDigit \cup {NonAsciiDigit}
\* \w of a str pattern: every Unicode letter and digit, and the underscore
WordChar == Letter \cup {NonAsciiLower, NonAsciiUpper} \cup Digit \cup {"_"}
\* \s of a str pattern, and the set str.strip() removes: str.isspace()
Whitespace == {" ", "\t", NL, VT, "\f", "\r", FS, GS, RS, US, NonAsciiSpace}
\* [A-Za-z ]
NameChar == Letter \cup {" "}
\* [0-9.\-^] with the en dash for "^"
NumChar == AsciiDigit \cup {".", "-", EN_DASH}

(***************************************************************************)
(* String primitives of Python used by the parser.                         *)
(***************************************************************************)
\* s[i:] (1-based i)
From(s, i) == SubSeq(s, i, Len(s))

\* s.startswith(lit, i-1)
MatchAt(lit, s, i) == /\ i >= 1
                      /\ i + Len(lit) - 1 <= Len(s)
                      /\ SubSeq(s, i, i + Len(lit) - 1) = lit

Min(S) == CHOOSE x \in S : \A y \in S : x <= y
Max(S) == CHOOSE x \in S : \A y \in S : x >= y

\* the positions >= i where lit occurs
Occurrences(lit, s, i) == {j \in i..(Len(s) - Len(lit) + 1) : MatchAt(lit, s, j)}

\* s.find(lit, i-1) + 1: the first position >= i where lit occurs, 0 if none
Find(lit, s, i) ==
    LET occ == Occurrences(lit, s, i) IN IF occ = {} THEN 0 ELSE Min(occ)

\* s.rfind(lit) + 1: the last position where lit occurs, 0 if none
RFind(lit, s) ==
    LET occ == Occurrences(lit, s, 1) IN IF occ = {} THEN 0 ELSE Max(occ)

\* the first position >= i holding a character of class cls, 0 if none
FindChar(cls, s, i) ==
    LET occ == {j \in i..Len(s) : CharAt(s, j) \in cls}
    IN  IF occ = {} THEN 0 ELSE Min(occ)

\* the end (exclusive) of the longest run of characters of class cls from i
RECURSIVE RunEnd(_, _, _)
RunEnd(cls, s, i) ==
    IF i <= Len(s) /\ CharAt(s, i) \in cls THEN RunEnd(cls, s, i + 1) ELSE i

\* the position of the first newline at or after i, Len(s)+1 if none:
\* where a `.*` without re.S stops
LineEnd(s, i) == LET n == Find(NL, s, i) IN IF n = 0 THEN Len(s) + 1 ELSE n

\* str.lstrip(chars), str.rstrip(chars), str.strip(chars)
RECURSIVE LStripChars(_, _)
LStripChars(s, cls) ==
    IF Len(s) > 0 /\ CharAt(s, 1) \in cls THEN LStripChars(From(s, 2), cls) ELSE s

RECURSIVE RStripChars(_, _)
RStripChars(s, cls) ==
    IF Len(s) > 0 /\ CharAt(s, Len(s)) \in cls
    THEN RStripChars(SubSeq(s, 1, Len(s) - 1), cls) ELSE s

StripChars(s, cls) == RStripChars(LStripChars(s, cls), cls)

\* str.strip()
Strip(s) == StripChars(s, Whitespace)

\* str.split(sep) for a one-character sep: always count(sep)+1 parts
RECURSIVE Split(_, _)
Split(s, sep) ==
    LET n == Find(sep, s, 1)
    IN  IF n = 0 THEN <<s>>
        ELSE <<SubSeq(s, 1, n - 1)>> \o Split(From(s, n + 1), sep)

\* str.lower() of one character
LowerChar(c) ==
    LET k == Find(c, UpperLetters \o NonAsciiUpper, 1)
    IN  IF k = 0 THEN c ELSE CharAt(LowerLetters \o NonAsciiLower, k)

RECURSIVE Lower(_)
Lower(s) == IF s = "" THEN "" ELSE LowerChar(CharAt(s, 1)) \o Lower(From(s, 2))

\* lit in s
Contains(s, lit) == Find(lit, s, 1) # 0

(***************************************************************************)
(* parse_result_to_json, section by section.  A dict with string keys is a *)
(* function on a set of strings; a list is a sequence; a regular           *)
(* expression match object is <<>> for None and <<group, ...>> otherwise.  *)
(***************************************************************************)
\* d[k] = v
Put(d, k, v) == [x \in (DOMAIN d) \cup {k} |-> IF x = k THEN v ELSE d[x]]

EmptyDict == [x \in {} |-> ""]

\* the record the function starts from
InitialData ==
    [normal_ranges |-> EmptyDict,
     biomarker_table |-> <<>>,
     executive_summary |-> [top_priorities |-> <<>>, key_strengths |-> <<>>],
     system_analysis |-> [status |-> "", explanation |-> ""],
     action_plan |-> [nutrition |-> "", lifestyle |-> "", medical |-> "",
                      testing |-> ""],
     interaction_alerts |-> <<>>]

\* re.sub(r"```.*?```", "", result_text, flags=re.S)
RECURSIVE RemoveCodeBlocks(_)
RemoveCodeBlocks(s) ==
    LET i == Find(FENCE, s, 1)
        j == Find(FENCE, s, i + 3)
    IN  IF i = 0 \/ j = 0 THEN s
        ELSE SubSeq(s, 1, i - 1) \o RemoveCodeBlocks(From(s, j + 3))

\* re.findall(r"- ([A-Za-z ]+): ([0-9.\-^]+.*)", s) from position `from`, the
\* en dash written "^"
RECURSIVE FindNormalRanges(_, _)
FindNormalRanges(s, from) ==
    LET i == Find("- ", s, from)
        r == RunEnd(NameChar, s, i + 2)
        e == LineEnd(s, r + 2)
    IN  IF i = 0 THEN <<>>
        ELSE IF /\ r > i + 2
                /\ MatchAt(": ", s, r)
                /\ r + 2 <= Len(s)
                /\ CharAt(s, r + 2) \in NumChar
             THEN <<<<SubSeq(s, i + 2, r - 1), SubSeq(s, r + 2, e - 1)>>>>
                  \o FindNormalRanges(s, e)
             ELSE FindNormalRanges(s, i + 1)

RECURSIVE StoreNormalRanges(_, _)
StoreNormalRanges(d, ms) ==
    IF ms = <<>> THEN d
    ELSE StoreNormalRanges(Put(d, Strip(ms[1][1]), Strip(ms[1][2])), Tail(ms))

NormalRanges(data, s) ==
    [data EXCEPT !.normal_ranges = StoreNormalRanges(@, FindNormalRanges(s, 1))]

\* re.search(r"\| Biomarker \| Value \|.*?\|\n((?:\|.*\|\n?)+)", s, re.S):
\* the header literal, the shortest stretch to a "|\n" that is followed by a
\* pipe with another pipe somewhere after it, then (re.S, greedy) everything
\* up to the last pipe of the text and a newline after it if there is one
TableHeader == "| Biomarker | Value |"

TableMatch(s) ==
    LET p == Find(TableHeader, s, 1)
        m == Find("|" \o NL \o "|", s, p + Len(TableHeader))
        last == RFind("|", s)
    IN  IF p = 0 \/ m = 0 \/ last <= m + 2 THEN <<>>
        ELSE <<SubSeq(s, m + 2,
                      IF MatchAt(NL, s, last + 1) THEN last + 1 ELSE last)>>

\* [p.strip() for p in row.strip("|").split("|")]
RowParts(row) ==
    LET cells == Split(StripChars(row, {"|"}), "|")
    IN  [k \in 1..Len(cells) |-> Strip(cells[k])]

\* a parser that keeps the separator row
RowAcceptedAnyFour(parts) == Len(parts) = 4

RowAccepted(parts) == Len(parts) = 4 /\ parts[1] # "---"

RECURSIVE TableEntries(_)
TableEntries(rows) ==
    IF rows = <<>> THEN <<>>
    ELSE LET parts == RowParts(rows[1])
         IN  (IF RowAccepted(parts)
              THEN <<[biomarker |-> parts[1], value |-> parts[2],
                      status |-> parts[3], insight |-> parts[4]]>>
              ELSE <<>>) \o TableEntries(Tail(rows))

BiomarkerTable(data, s) ==
    LET table_match == TableMatch(s)
    IN  IF table_match = <<>> THEN data
        ELSE [data EXCEPT !.biomarker_table =
                  @ \o TableEntries(Split(Strip(table_match[1]), NL))]

\* re.search(head + r"\n(.*?)\n" + tail, s, re.S)
SectionBetween(s, head, tail) ==
    LET p == Find(head \o NL, s, 1)
        b == p + Len(head) + 1
        m == Find(NL \o tail, s, b)
    IN  IF p = 0 \/ m = 0 THEN <<>> ELSE <<SubSeq(s, b, m - 1)>>

\* re.findall(r"\d+\.\s+(.*)", s) from position `from`
RECURSIVE FindPriorities(_, _)
FindPriorities(s, from) ==
    LET i == FindChar(Digit, s, from)
        d == RunEnd(Digit, s, i)
        w == RunEnd(Whitespace, s, d + 1)
        e == LineEnd(s, w)
    IN  IF i = 0 THEN <<>>
        ELSE IF MatchAt(".", s, d) /\ w > d + 1
             THEN <<SubSeq(s, w, e - 1)>> \o FindPriorities(s, e)
             ELSE FindPriorities(s, i + 1)

StrengthTokens == {"Normal", "within", "good", "optimal"}

\* re.findall(r"- (.*(?:Normal|within|good|optimal).*?)\n", s) from position `from`
RECURSIVE FindStrengths(_, _)
FindStrengths(s, from) ==
    LET i == Find("- ", s, from)
        n == Find(NL, s, i + 2)
        line == SubSeq(s, i + 2, n - 1)
    IN  IF i = 0 THEN <<>>
        ELSE IF n # 0 /\ \E t \in StrengthTokens : Contains(line, t)
             THEN <<line>> \o FindStrengths(s, n + 1)
             ELSE FindStrengths(s, i + 1)

ExecutiveSummary(data, s) ==
    LET exec_section == SectionBetween(s, "Executive Summary",
                                       "System-Specific Analysis")
    IN  IF exec_section = <<>> THEN data
        ELSE [data EXCEPT
                !.executive_summary.top_priorities =
                    FindPriorities(exec_section[1], 1),
                !.executive_summary.key_strengths =
                    FindStrengths(exec_section[1], 1)]

\* re.search(r"System-Specific Analysis\n- Status: (.*?)\n- Explanation:
\*           (.*?)(?:\n|$)", s, re.S)
SysMatch(s) ==
    LET head == "System-Specific Analysis" \o NL \o "- Status: "
        mid == NL \o "- Explanation: "
        p == Find(head, s, 1)
        b == p + Len(head)
        m == Find(mid, s, b)
        c == m + Len(mid)
    IN  IF p = 0 \/ m = 0 THEN <<>>
        ELSE <<SubSeq(s, b, m - 1), SubSeq(s, c, LineEnd(s, c) - 1)>>

\* a parser that drops system_analysis when the section is not found
SystemAnalysisOmitted(data, s) ==
    LET sys_match == SysMatch(s)
    IN  IF sys_match # <<>>
        THEN [data EXCEPT !.system_analysis =
                  [status |-> Strip(sys_match[1]),
                   explanation |-> Strip(sys_match[2])]]
        ELSE [k \in (DOMAIN data) \ {"system_analysis"} |-> data[k]]

\* a parser with no else branch: the placeholder stays
SystemAnalysisPlaceholder(data, s) ==
    LET sys_match == SysMatch(s)
    IN  IF sys_match # <<>>
        THEN [data EXCEPT !.system_analysis =
                  [status |-> Strip(sys_match[1]),
                   explanation |-> Strip(sys_match[2])]]
        ELSE data

SystemAnalysis(data, s) ==
    LET sys_match == SysMatch(s)
    IN  IF sys_match # <<>>
        THEN [data EXCEPT !.system_analysis =
                  [status |-> Strip(sys_match[1]),
                   explanation |-> Strip(sys_match[2])]]
        ELSE [data EXCEPT !.system_analysis =
                  [status |-> "Unknown",
                   explanation |-> "No system analysis provided."]]

\* re.findall(r"- (\w+): (.*?)(?:\n|$)", s) from position `from`
RECURSIVE FindPlan(_, _)
FindPlan(s, from) ==
    LET i == Find("- ", s, from)
        r == RunEnd(WordChar, s, i + 2)
        e == LineEnd(s, r + 2)
    IN  IF i = 0 THEN <<>>
        ELSE IF r > i + 2 /\ MatchAt(": ", s, r)
             THEN <<<<SubSeq(s, i + 2, r - 1), SubSeq(s, r + 2, e - 1)>>>>
                  \o FindPlan(s, e + 1)
             ELSE FindPlan(s, i + 1)

PlanKeys == {"nutrition", "lifestyle", "medical", "testing"}

\* a parser that stores every category
StorePlanAnyKey(plan, category, content) ==
    Put(plan, Lower(category), Strip(content))

\* if key in data["action_plan"]: data["action_plan"][key] = content.strip()
StorePlan(plan, category, content) ==
    LET key == Lower(category)
    IN  IF key \in DOMAIN plan THEN [plan EXCEPT ![key] = Strip(content)]
        ELSE plan

RECURSIVE StorePlanAll(_, _)
StorePlanAll(plan, ms) ==
    IF ms = <<>> THEN plan
    ELSE StorePlanAll(StorePlan(plan, ms[1][1], ms[1][2]), Tail(ms))

ActionPlan(data, s) ==
    LET action_section == SectionBetween(s, "Personalized Action Plan",
                                         "Interaction Alerts")
    IN  IF action_section = <<>> THEN data
        ELSE [data EXCEPT !.action_plan =
                  StorePlanAll(@, FindPlan(action_section[1], 1))]

\* re.search(r"Interaction Alerts\n(.*)", s, re.S)
AlertSection(s) ==
    LET head == "Interaction Alerts" \o NL
        p == Find(head, s, 1)
    IN  IF p = 0 THEN <<>> ELSE <<From(s, p + Len(head))>>

\* line.strip("- ").strip()
AlertText(line) == Strip(StripChars(line, {"-", " "}))

\* if line.strip() and not line.strip().startswith("```")
AlertKept(line) == Strip(line) # "" /\ ~MatchAt(FENCE, Strip(line), 1)

RECURSIVE Alerts(_)
Alerts(lines) ==
    IF lines = <<>> THEN <<>>
    ELSE (IF AlertKept(lines[1]) THEN <<AlertText(lines[1])>> ELSE <<>>)
         \o Alerts(Tail(lines))

InteractionAlerts(data, s) ==
    LET alert_section == AlertSection(s)
    IN  IF alert_section = <<>> THEN data
        ELSE [data EXCEPT !.interaction_alerts =
                  Alerts(Split(alert_section[1], NL))]

\* the whole function
parse_result_to_json(result_text) ==
    LET s == RemoveCodeBlocks(result_text)
    IN  InteractionAlerts(
          ActionPlan(
            SystemAnalysis(
              ExecutiveSummary(
                BiomarkerTable(
                  NormalRanges(InitialData, s), s), s), s), s), s)

(***************************************************************************)
(* The remote service's answers.  A report is the concatenation of six     *)
(* optional sections; each section is drawn from a family of variants made *)
(* of lines the upstream model produces, well formed and malformed.        *)
(***************************************************************************)
MaxRows == 2
MaxItems == 3
MaxBullets == 2
MaxAlerts == 2
NumRequests == 2

\* all sequences over lines of length 0..n, each concatenated into one string
RECURSIVE Blocks(_, _)
Blocks(lines, n) ==
    IF n = 0 THEN {""}
    ELSE LET shorter == Blocks(lines, n - 1)
         IN  shorter \cup {b \o l : b \in shorter, l \in lines}

\* a line ending of a report that went through a CRLF channel
CRLF == "\r" \o NL

RangeSecs ==
    {"",
     "- Albumin: 3.5-5.0 g/dL" \o NL,
     "- Albumin: 3.5-5.0 g/dL" \o NL \o "- CRP: <3 mg/L" \o NL
        \o "- Albumin:  4.0 " \o NL,
     FENCE \o NL \o "- CRP: 0-3 mg/L" \o NL \o FENCE \o NL
        \o "- Glucose: 70-99 mg/dL" \o NL,
     "- CRP: " \o EN_DASH \o "3 mg/L" \o NL,
     "- Albumin: 3.5-5.0 g/dL" \o CRLF \o "- MCV: 80" \o EN_DASH \o "100 fL"
        \o NonAsciiSpace \o CRLF}

TableHeaderLine == "| Biomarker | Value | Status | Insight |" \o NL
SepLines == {"|---|---|---|---|" \o NL, "| --- | --- | --- | --- |" \o NL}
RowLines ==
    {"| Albumin | 4.5 | Normal | ok |" \o NL,
     "| CRP | 2.5 | High | watch |" \o NL,
     "| Glucose | 160 | High |" \o NL,
     "| MCV | 150 | High | check | extra |" \o NL,
     "| RDW | 15 | High | mild ||" \o NL}
TableSecs ==
    {"",
     TableHeaderLine \o "|---|---|---|---|" \o NL
        \o "| Albumin" \o NonAsciiSpace \o "| 4.5 |" \o VT \o "Normal | ok |"
        \o NL,
     "| Biomarker | Value | Status | Insight |" \o CRLF \o "|---|---|---|---|"
        \o CRLF \o "| Albumin | 4.5 | Normal | ok |" \o CRLF
        \o "| CRP | 2.5 | High | watch |" \o CRLF}
    \cup {TableHeaderLine \o sep \o rows :
              sep \in SepLines, rows \in Blocks(RowLines, MaxRows)}

ItemTexts == <<"Lower glucose", "Reduce CRP", "Recheck MCV", "Sleep more",
               "Drink water">>
ItemLine(k) == CharAt("123456789", k) \o ". " \o ItemTexts[k] \o NL
\* numbered items first..last, in order
RECURSIVE Items(_, _)
Items(first, last) ==
    IF first > last THEN "" ELSE ItemLine(first) \o Items(first + 1, last)
BulletLines == {"- Albumin is Normal" \o NL, "- Glucose is High" \o NL}
\* n numbered items with at most one bullet line placed before, between or
\* after them, with or without a blank line before the next heading
ExecBodies ==
    UNION {{Items(1, n)}
           \cup {Items(1, k) \o b \o Items(k + 1, n) :
                    k \in 0..n, b \in BulletLines} : n \in 0..MaxItems}
ExecSecs ==
    {"",
     "Executive Summary" \o NL \o NonAsciiDigit \o ". Lower glucose" \o NL \o NL,
     "Executive Summary" \o NL \o "1." \o "\r" \o "Lower glucose" \o NL
        \o "2." \o NonAsciiSpace \o "Reduce CRP" \o NL \o NL}
    \cup {"Executive Summary" \o NL \o body \o gap :
              body \in ExecBodies, gap \in {"", NL}}

SysHeading == "System-Specific Analysis" \o NL
SysSecs ==
    {"",
     SysHeading,
     SysHeading \o "- Status: Stable" \o NL \o "- Explanation: All fine." \o NL,
     SysHeading \o "- Status:  Watch " \o NL \o "- Explanation:  Two flags. "
        \o NL,
     SysHeading \o NL \o "- Status: Stable" \o NL \o "- Explanation: All fine."
        \o NL,
     SysHeading \o "- Status: Stable" \o NL,
     SysHeading \o "- Status: Stable" \o CRLF \o "- Explanation: All fine."
        \o "\f" \o CRLF}

PlanLines ==
    {"- Nutrition: Eat more greens." \o NL,
     "- LIFESTYLE:  Walk daily. " \o NL,
     "- Medical: See a doctor." \o NL,
     "- Sleep: Rest more." \o NL,
     "- Nutrition: Less sugar." \o NL,
     "Stay hydrated." \o NL}
PlanSecs ==
    {"",
     "Personalized Action Plan" \o NL \o "- " \o NonAsciiLower
        \o ": - Testing: Retest." \o NL,
     "Personalized Action Plan" \o NL \o "- " \o NonAsciiUpper \o "t"
        \o NonAsciiLower \o ": Rest." \o NL \o "- Testing: Retest." \o US
        \o CRLF}
    \cup {"Personalized Action Plan" \o NL \o b :
              b \in Blocks(PlanLines, MaxBullets)}

AlertLines ==
    {"- Avoid alcohol." \o NL,
     "- Metformin - insulin -" \o NL,
     NL,
     FENCE \o NL,
     "- A | B | C | D" \o NL}
AlertSecs ==
    {"",
     "Interaction Alerts" \o NL \o "- Avoid alcohol." \o CRLF \o CRLF
        \o FS \o "- Metformin - insulin" \o GS \o RS \o NL}
    \cup {"Interaction Alerts" \o NL \o b :
              b \in Blocks(AlertLines, MaxAlerts)}

\* the sections around the one that varies: all absent, or all in plain form
Absent == <<"", "", "", "", "", "">>
Plain ==
    <<"- Albumin: 3.5-5.0 g/dL" \o NL,
      TableHeaderLine \o "|---|---|---|---|" \o NL
         \o "| Albumin | 4.5 | Normal | ok |" \o NL,
      "Executive Summary" \o NL \o Items(1, 1) \o "- Albumin is Normal" \o NL
         \o NL,
      SysHeading \o "- Status: Stable" \o NL \o "- Explanation: All fine." \o NL,
      "Personalized Action Plan" \o NL \o "- Nutrition: Eat more greens." \o NL,
      "Interaction Alerts" \o NL \o "- Avoid alcohol." \o NL>>
Contexts == {Absent, Plain}

\* every variant of one section, inside each context
Texts ==
    UNION {
        {r \o c[2] \o c[3] \o c[4] \o c[5] \o c[6] : r \in RangeSecs} \cup
        {c[1] \o t \o c[3] \o c[4] \o c[5] \o c[6] : t \in TableSecs} \cup
        {c[1] \o c[2] \o e \o c[4] \o c[5] \o c[6] : e \in ExecSecs} \cup
        {c[1] \o c[2] \o c[3] \o y \o c[5] \o c[6] : y \in SysSecs} \cup
        {c[1] \o c[2] \o c[3] \o c[4] \o p \o c[6] : p \in PlanSecs} \cup
        {c[1] \o c[2] \o c[3] \o c[4] \o c[5] \o a : a \in AlertSecs}
        : c \in Contexts}

\* the answers used when several requests are in flight
ConcurrentTexts ==
    {"",
     "- Albumin: 3.5-5.0 g/dL" \o NL \o TableHeaderLine \o "|---|---|---|---|"
        \o NL \o "| Albumin | 4.5 | Normal | ok |" \o NL
        \o "Interaction Alerts" \o NL \o "- Avoid alcohol." \o NL,
     "Executive Summary" \o NL \o Items(1, 2) \o "- Albumin is Normal" \o NL
        \o NL \o SysHeading \o "- Status: Stable" \o NL
        \o "- Explanation: All fine." \o NL \o "Personalized Action Plan" \o NL
        \o "- Medical: See a doctor." \o NL \o "Interaction Alerts" \o NL
        \o "- Metformin - insulin -" \o NL}

\* str(e) of the exceptions client.predict raises
Errors == {"Connection refused", "Read timed out"}

(***************************************************************************)
(* The /analyze handler.  Each request runs analyze_biomarkers; pc is the  *)
(* statement it is at.                                                     *)
(***************************************************************************)
VARIABLES pc, remote, result_text, data, response, calls
vars == <<pc, remote, result_text, data, response, calls>>

NoAnswer == [kind |-> "none"]
NoData == [unset |-> TRUE]
NoResponse == [status_code |-> 0]

\* a parser that keeps its record in one module-level dict
DataOfShared(r) == 1

\* the dict object that invocation r of parse_result_to_json builds: a local
\* of the call, fresh at every call
DataOf(r) == r

InitWith(requests) ==
    /\ pc = [r \in requests |-> "idle"]
    /\ remote = [r \in requests |-> NoAnswer]
    /\ result_text = [r \in requests |-> ""]
    /\ data = [r \in requests |-> NoData]
    /\ response = [r \in requests |-> NoResponse]
    /\ calls = [r \in requests |-> 0]

\* the framework calls the handler with a validated BiomarkerInput
Call(r) ==
    /\ pc[r] = "idle"
    /\ pc' = [pc EXCEPT ![r] = "predict"]
    /\ UNCHANGED <<remote, result_text, data, response, calls>>

\* client.predict(...) returns the report
PredictReturns(r, texts) ==
    /\ pc[r] = "predict"
    /\ \E t \in texts : remote' = [remote EXCEPT ![r] = [kind |-> "text", text |-> t]]
    /\ calls' = [calls EXCEPT ![r] = @ + 1]
    /\ pc' = [pc EXCEPT ![r] = "data"]
    /\ UNCHANGED <<result_text, data, response>>

\* client.predict(...) raises
PredictRaises(r) ==
    /\ pc[r] = "predict"
    /\ \E m \in Errors : remote' = [remote EXCEPT ![r] = [kind |-> "error", message |-> m]]
    /\ calls' = [calls EXCEPT ![r] = @ + 1]
    /\ pc' = [pc EXCEPT ![r] = "except"]
    /\ UNCHANGED <<result_text, data, response>>

\* a handler that calls the remote service again after a first failure
ExceptRetry(r) ==
    /\ pc[r] = "except"
    /\ IF calls[r] < 2
       THEN /\ pc' = [pc EXCEPT ![r] = "predict"]
            /\ UNCHANGED response
       ELSE /\ response' = [response EXCEPT ![r] =
                               [status_code |-> 500,
                                detail |-> remote[r].message]]
            /\ pc' = [pc EXCEPT ![r] = "done"]
    /\ UNCHANGED <<remote, result_text, data, calls>>

\* except Exception as e: raise HTTPException(status_code=500, detail=str(e))
Except(r) ==
    /\ pc[r] = "except"
    /\ response' = [response EXCEPT ![r] =
                       [status_code |-> 500, detail |-> remote[r].message]]
    /\ pc' = [pc EXCEPT ![r] = "done"]
    /\ UNCHANGED <<remote, result_text, data, calls>>

\* data = {...}
NewData(r) ==
    /\ pc[r] = "data"
    /\ data' = [data EXCEPT ![DataOf(r)] = InitialData]
    /\ pc' = [pc EXCEPT ![r] = "sub"]
    /\ UNCHANGED <<remote, result_text, response, calls>>

\* result_text = re.sub(...)
Sub(r) ==
    /\ pc[r] = "sub"
    /\ result_text' = [result_text EXCEPT ![r] = RemoveCodeBlocks(remote[r].text)]
    /\ pc' = [pc EXCEPT ![r] = "normal_ranges"]
    /\ UNCHANGED <<remote, data, response, calls>>

\* one section of the parser: the record of the invocation becomes updated
Section(r, at, updated, next) ==
    /\ pc[r] = at
    /\ data' = [data EXCEPT ![DataOf(r)] = updated]
    /\ pc' = [pc EXCEPT ![r] = next]
    /\ UNCHANGED <<remote, result_text, response, calls>>

StepNormalRanges(r) ==
    Section(r, "normal_ranges",
            NormalRanges(data[DataOf(r)], result_text[r]), "biomarker_table")
StepBiomarkerTable(r) ==
    Section(r, "biomarker_table",
            BiomarkerTable(data[DataOf(r)], result_text[r]), "executive_summary")
StepExecutiveSummary(r) ==
    Section(r, "executive_summary",
            ExecutiveSummary(data[DataOf(r)], result_text[r]), "system_analysis")
StepSystemAnalysis(r) ==
    Section(r, "system_analysis",
            SystemAnalysis(data[DataOf(r)], result_text[r]), "action_plan")
StepActionPlan(r) ==
    Section(r, "action_plan",
            ActionPlan(data[DataOf(r)], result_text[r]), "interaction_alerts")
StepInteractionAlerts(r) ==
    Section(r, "interaction_alerts",
            InteractionAlerts(data[DataOf(r)], result_text[r]), "return")

\* return data; parsed = ...; return parsed
Return(r) ==
    /\ pc[r] = "return"
    /\ response' = [response EXCEPT ![r] =
                       [status_code |-> 200, body |-> data[DataOf(r)]]]
    /\ pc' = [pc EXCEPT ![r] = "done"]
    /\ UNCHANGED <<remote, result_text, data, calls>>

Parse(r) ==
    \/ NewData(r)
    \/ Sub(r)
    \/ StepNormalRanges(r)
    \/ StepBiomarkerTable(r)
    \/ StepExecutiveSummary(r)
    \/ StepSystemAnalysis(r)
    \/ StepActionPlan(r)
    \/ StepInteractionAlerts(r)
    \/ Return(r)

\* one request at a time: the handler is a coroutine that never awaits, so
\* on one event loop it runs from call to response without interleaving
Init == InitWith({1})

Next ==
    \E r \in DOMAIN pc :
        \/ Call(r)
        \/ PredictReturns(r, Texts)
        \/ PredictRaises(r)
        \/ Except(r)
        \/ Parse(r)

Spec == Init /\ [][Next]_vars

\* several workers: requests interleave statement by statement
InitConcurrent == InitWith(1..NumRequests)

NextConcurrent ==
    \E r \in DOMAIN pc :
        \/ Call(r)
        \/ PredictReturns(r, ConcurrentTexts)
        \/ PredictRaises(r)
        \/ Except(r)
        \/ Parse(r)

SpecConcurrent == InitConcurrent /\ [][NextConcurrent]_vars

(***************************************************************************)
(* Properties.  Answered(r): request r ended after the remote call         *)
(* returned text; Body(r) is the report it answered with.                  *)
(***************************************************************************)
Answered(r) == pc[r] = "done" /\ remote[r].kind = "text"
Text(r) == remote[r].text
Body(r) == response[r].body

TopKeys == {"normal_ranges", "biomarker_table", "executive_summary",
            "system_analysis", "action_plan", "interaction_alerts"}

DefaultSystemAnalysis ==
    [status |-> "Unknown", explanation |-> "No system analysis provided."]

\* the lines of a text
Lines(s) == Split(s, NL)

\* C1: whatever text the remote call returned, the request ends with a report
\* (the parser raised nothing) that has all six top-level keys, with
\* top_priorities and key_strengths under executive_summary and status and
\* explanation under system_analysis.
C1_AllKeysPresent ==
    \A r \in DOMAIN pc :
        Answered(r) =>
            /\ response[r].status_code = 200
            /\ DOMAIN Body(r) = TopKeys
            /\ DOMAIN Body(r).executive_summary
                   = {"top_priorities", "key_strengths"}
            /\ DOMAIN Body(r).system_analysis = {"status", "explanation"}

\* a malformed report was parsed: a table header with no data row
C1_Witness ==
    \E r \in DOMAIN pc :
        /\ Answered(r)
        /\ Contains(Text(r), TableHeader)
        /\ Body(r).biomarker_table = <<>>
        /\ DOMAIN Body(r) = TopKeys

\* C2: the empty string parses to the empty mapping, empty sequences, four
\* empty action_plan strings and the default system_analysis.
C2_EmptyInput ==
    \A r \in DOMAIN pc :
        (Answered(r) /\ Text(r) = "") =>
            Body(r) = [normal_ranges |-> EmptyDict,
                       biomarker_table |-> <<>>,
                       executive_summary |->
                           [top_priorities |-> <<>>, key_strengths |-> <<>>],
                       system_analysis |-> DefaultSystemAnalysis,
                       action_plan |->
                           [nutrition |-> "", lifestyle |-> "",
                            medical |-> "", testing |-> ""],
                       interaction_alerts |-> <<>>]

C2_Witness ==
    \E r \in DOMAIN pc :
        Answered(r) /\ Text(r) = "" /\ response[r].status_code = 200

\* C3: a request calls the remote service at most once; it ends either with
\* status 500 and the failure's message as detail (the call failed, and was
\* not retried) or with the parsed report (the call succeeded), and has no
\* response before it ends.
C3_OneCallOneOutcome ==
    \A r \in DOMAIN pc :
        /\ calls[r] <= 1
        /\ pc[r] # "done" => response[r] = NoResponse
        /\ pc[r] = "done" =>
            /\ calls[r] = 1
            /\ \/ /\ remote[r].kind = "error"
                  /\ response[r] = [status_code |-> 500,
                                    detail |-> remote[r].message]
               \/ /\ remote[r].kind = "text"
                  /\ response[r] = [status_code |-> 200,
                                    body |-> parse_result_to_json(Text(r))]

\* a request ended after the remote call failed
C3_Witness ==
    \E r \in DOMAIN pc :
        /\ pc[r] = "done"
        /\ remote[r].kind = "error"
        /\ response[r].status_code = 500
        /\ response[r].detail = "Connection refused"
        /\ calls[r] = 1

\* the scenario of C4: header row, separator row, two data rows
C4_DataRows == {<<"Albumin", "4.5", "Normal", "ok">>,
                <<"CRP", "2.5", "High", "watch">>}
C4_RowLine(c) ==
    "| " \o c[1] \o " | " \o c[2] \o " | " \o c[3] \o " | " \o c[4] \o " |" \o NL
C4_Entry(c) ==
    [biomarker |-> c[1], value |-> c[2], status |-> c[3], insight |-> c[4]]
C4_Table(sep, c1, c2) ==
    TableHeaderLine \o sep \o C4_RowLine(c1) \o C4_RowLine(c2)
\* the text holds this table, outside any fenced block, as its only table:
\* its header is the first one and no pipe follows its last row
C4_Scenario(text, table) ==
    LET p == Find(table, text, 1)
        fence == Find(FENCE, text, 1)
    IN  /\ p # 0
        /\ Find(TableHeader, text, 1) = p
        /\ Find("|", text, p + Len(table)) = 0
        /\ fence = 0 \/ fence >= p + Len(table)

\* C4: for a text holding a table of the header row, a separator row and two
\* data rows, biomarker_table is exactly the two rows' entries, in row order,
\* cells 1..4 mapped to biomarker, value, status, insight; the separator row
\* gives no entry.
C4_TwoRowTable ==
    \A r \in DOMAIN pc :
        Answered(r) =>
            \A sep \in SepLines, c1 \in C4_DataRows, c2 \in C4_DataRows :
                C4_Scenario(Text(r), C4_Table(sep, c1, c2)) =>
                    Body(r).biomarker_table = <<C4_Entry(c1), C4_Entry(c2)>>

C4_Witness ==
    \E r \in DOMAIN pc :
        /\ Answered(r)
        /\ C4_Scenario(Text(r),
                       C4_Table("| --- | --- | --- | --- |" \o NL,
                                <<"CRP", "2.5", "High", "watch">>,
                                <<"Albumin", "4.5", "Normal", "ok">>))
        /\ Len(Body(r).biomarker_table) = 2
        /\ Body(r).biomarker_table[1].biomarker = "CRP"
        /\ Body(r).biomarker_table[2].insight = "ok"

\* the scenario of C5: three numbered items and one bullet containing
\* "Normal", the bullet before, between or after the items
C5_Sections ==
    {Items(1, k) \o "- Albumin is Normal" \o NL \o Items(k + 1, 3) : k \in 0..3}

\* C5: with an Executive Summary heading, three numbered items and one
\* bullet containing "Normal" wherever it is placed, then the
\* System-Specific Analysis heading, top_priorities has length 3 and
\* key_strengths has length 1.
C5_ThreeAndOne ==
    \A r \in DOMAIN pc :
        Answered(r) =>
            \A sec \in C5_Sections :
                Contains(Text(r), "Executive Summary" \o NL \o sec \o SysHeading)
                => /\ Len(Body(r).executive_summary.top_priorities) = 3
                   /\ Len(Body(r).executive_summary.key_strengths) = 1

\* the rows of the table of a text: the lines after the header line that
\* start with a pipe
C6_Rows(text) ==
    LET lines == Lines(RemoveCodeBlocks(text))
        heads == {i \in 1..Len(lines) : MatchAt(TableHeader, lines[i], 1)}
    IN  IF heads = {} THEN <<>>
        ELSE SelectSeq(SubSeq(lines, Min(heads) + 1, Len(lines)),
                       LAMBDA l : MatchAt("|", l, 1))
\* the pipe-delimited cells of a row, empty cells included: what lies between
\* its opening pipe and its closing pipe, split at the pipes
C6_Cells(row) ==
    LET inner == SubSeq(row, 2, IF MatchAt("|", row, Len(row))
                                THEN Len(row) - 1 ELSE Len(row))
        cells == Split(inner, "|")
    IN  [k \in 1..Len(cells) |-> Strip(cells[k])]

\* C6: every entry of biomarker_table has exactly the four fields and comes
\* from a row with exactly four cells: a row with fewer or more cells, empty
\* cells included, gives no entry.
C6_OnlyFourCellRows ==
    \A r \in DOMAIN pc :
        Answered(r) =>
            \A i \in 1..Len(Body(r).biomarker_table) :
                LET entry == Body(r).biomarker_table[i]
                    rows == C6_Rows(Text(r))
                IN  /\ DOMAIN entry = {"biomarker", "value", "status", "insight"}
                    /\ \E k \in 1..Len(rows) :
                          LET c == C6_Cells(rows[k])
                          IN  Len(c) = 4 /\ entry = C4_Entry(c)

\* a line with only a leading "- " marker removed
C7_Unmarked(line) ==
    LET t == Strip(line) IN IF MatchAt("- ", t, 1) THEN Strip(From(t, 3)) ELSE t
C7_IsAlert(line) == Strip(line) # "" /\ ~MatchAt(FENCE, Strip(line), 1)
C7_Expected(text) ==
    LET s == RemoveCodeBlocks(text)
        p == Find("Interaction Alerts" \o NL, s, 1)
        kept == SelectSeq(Lines(From(s, p + Len("Interaction Alerts") + 1)),
                          C7_IsAlert)
    IN  IF p = 0 THEN <<>> ELSE [k \in 1..Len(kept) |-> C7_Unmarked(kept[k])]

\* C7: interaction_alerts is, in order, the lines after the first
\* Interaction Alerts heading that are neither blank nor code-fence markers,
\* each with only a leading "- " removed and the rest of its text kept; it
\* is empty when the heading is absent.
C7_AlertsKeepText ==
    \A r \in DOMAIN pc :
        Answered(r) => Body(r).interaction_alerts = C7_Expected(Text(r))

\* C8: however the statements of the requests in flight interleave, each
\* request's report is the one its own text gives when parsed alone: no
\* invocation sees what another one wrote.
C8_Independent ==
    \A r \in DOMAIN pc :
        Answered(r) => Body(r) = parse_result_to_json(Text(r))

\* two invocations are in the middle of parsing different texts
C8_Witness ==
    \E r1, r2 \in DOMAIN pc :
        /\ pc[r1] = "action_plan"
        /\ pc[r2] = "executive_summary"
        /\ Text(r1) # Text(r2)
        /\ data[DataOf(r1)].biomarker_table # <<>>
        /\ data[DataOf(r2)].biomarker_table = <<>>

C9_Statuses == {"Stable", " Watch "}
C9_Explanations == {"All fine.", " Two flags. "}
\* the heading, blank lines or none, then the Status and Explanation lines
C9_Block(gap, st, ex) ==
    SysHeading \o gap \o "- Status: " \o st \o NL \o "- Explanation: " \o ex \o NL

\* C9: with the lines - Status: <s> and - Explanation: <e> following the
\* System-Specific Analysis heading, directly or after blank lines,
\* system_analysis is {<s> trimmed, <e> trimmed}; without those lines it is
\* the default, never the empty placeholder.
C9_StatusAfterHeading ==
    \A r \in DOMAIN pc :
        Answered(r) =>
            /\ \A gap \in {"", NL, NL \o NL}, st \in C9_Statuses,
                  ex \in C9_Explanations :
                  Contains(Text(r), C9_Block(gap, st, ex)) =>
                      Body(r).system_analysis =
                          [status |-> Strip(st), explanation |-> Strip(ex)]
            /\ ~Contains(Text(r), "- Status: ") =>
                  Body(r).system_analysis = DefaultSystemAnalysis

\* the lines between the Personalized Action Plan heading line and the next
\* line that starts with Interaction Alerts; <<>> without both headings
C10_SegmentOf(lines) ==
    LET heads == {i \in 1..Len(lines) : lines[i] = "Personalized Action Plan"}
        ends == {j \in (Min(heads) + 1)..Len(lines) :
                    MatchAt("Interaction Alerts", lines[j], 1)}
    IN  IF heads = {} THEN <<>>
        ELSE IF ends = {} THEN <<>>
        ELSE SubSeq(lines, Min(heads) + 1, Min(ends) - 1)
C10_Segment(text) == C10_SegmentOf(Lines(RemoveCodeBlocks(text)))
\* the category and the text of a bullet line "- <Category>: <text>"
C10_IsBullet(line) == MatchAt("- ", line, 1) /\ Find(": ", line, 3) # 0
C10_Category(line) == SubSeq(line, 3, Find(": ", line, 3) - 1)
C10_Content(line) == From(line, Find(": ", line, 3) + 2)
\* the value the bullets of a segment leave under key
C10_Expected(seg, key) ==
    LET hits == {j \in 1..Len(seg) : /\ C10_IsBullet(seg[j])
                                     /\ Lower(C10_Category(seg[j])) = key}
    IN  IF hits = {} THEN "" ELSE Strip(C10_Content(seg[Max(hits)]))

\* C10: action_plan has exactly the keys nutrition, lifestyle, medical and
\* testing; each holds the trimmed text of the (last) bullet of the segment
\* whose lower-cased category is that key, and the empty string when there
\* is none; bullets of other categories add no key and change no value.
C10_ActionPlanKeys ==
    \A r \in DOMAIN pc :
        Answered(r) =>
            /\ DOMAIN Body(r).action_plan = PlanKeys
            /\ Body(r).action_plan
                   = [key \in PlanKeys |-> C10_Expected(C10_Segment(Text(r)), key)]

\* a known category in upper case was stored beside an unknown one
C10_Witness ==
    \E r \in DOMAIN pc :
        /\ Answered(r)
        /\ Contains(Text(r), "- Sleep: Rest more.")
        /\ Body(r).action_plan.lifestyle = "Walk daily."
        /\ Body(r).action_plan.nutrition = ""

====
